---- MODULE Spec2Model ----
(***************************************************************************)
(* FinancialAssistantWorkflow (financial-assistant/src/workflow/           *)
(* financial_assistant.py): the per-session state, run() with its three    *)
(* flows, the conversation-summary update and the storage cleaning.        *)
(*                                                                         *)
(* A Python string is a sequence of tokens.  A token is one character      *)
(* ("a", " ", "_") or one fixed phrase of the source kept whole (a         *)
(* literal of an f-string, a markdown template).  Concatenation is \o,     *)
(* so str.strip(), str.lower() and str.replace() are computed character    *)
(* by character.  An optional value is None == << >> or Some(v) == <<v>>.  *)
(***************************************************************************)
EXTENDS Integers, Sequences, FiniteSets, TLC

\* ------------------------------------------------------------------ bounds

\* run() calls per behaviour.
MaxRequests == 2
\* Requests a session had handled before its state was stored (SpecLoaded).
MaxLoaded == 1

\* ----------------------------------------------------------------- strings

None == << >>
Some(v) == <<v>>

UpperLetters == <<"A","B","C","D","E","F","G","H","I","J","K","L","M",
                  "N","O","P","Q","R","S","T","U","V","W","X","Y","Z">>
LowerLetters == <<"a","b","c","d","e","f","g","h","i","j","k","l","m",
                  "n","o","p","q","r","s","t","u","v","w","x","y","z">>
Whitespace == {" ", "\n", "\t"}

LowerChar(c) ==
    IF \E i \in 1..26 : UpperLetters[i] = c
    THEN LowerLetters[CHOOSE i \in 1..26 : UpperLetters[i] = c]
    ELSE c

\* str.lower()
Lower(s) == [i \in 1..Len(s) |-> LowerChar(s[i])]

UpperChar(c) ==
    IF \E i \in 1..26 : LowerLetters[i] = c
    THEN UpperLetters[CHOOSE i \in 1..26 : LowerLetters[i] = c]
    ELSE c

\* str.upper()
Upper(s) == [i \in 1..Len(s) |-> UpperChar(s[i])]

RECURSIVE LStrip(_)
LStrip(s) == IF s # << >> /\ Head(s) \in Whitespace THEN LStrip(Tail(s)) ELSE s

RECURSIVE RStrip(_)
RStrip(s) ==
    IF s # << >> /\ s[Len(s)] \in Whitespace
    THEN RStrip(SubSeq(s, 1, Len(s) - 1))
    ELSE s

\* str.strip()
Strip(s) == RStrip(LStrip(s))

\* str.replace('_', ' ')
ReplaceUnderscore(s) == [i \in 1..Len(s) |-> IF s[i] = "_" THEN " " ELSE s[i]]

\* ------------------------------------------------------------ the literals

UNKNOWN == <<"U","N","K","N","O","W","N">>
CHAT == <<"c","h","a","t">>
REPORT == <<"r","e","p","o","r","t">>
INCOME_STATEMENT == <<"i","n","c","o","m","e","_","s","t","a","t","e","m","e","n","t">>
COMPANY_FINANCIALS == <<"c","o","m","p","a","n","y","_","f","i","n","a","n","c","i","a","l","s">>
STOCK_PRICE == <<"s","t","o","c","k","_","p","r","i","c","e">>

\* RouterResult.category: Literal[...]
Categories == {INCOME_STATEMENT, COMPANY_FINANCIALS, STOCK_PRICE, REPORT, CHAT}

NoMessageProvided == <<"No message provided">>
SymbolErrorMessage ==
    <<"Could not extract a valid stock symbol from your request. Please specify a company name or ticker symbol.">>
InvalidCategoryMessage ==
    <<"Invalid category for data request. Please specify income statement, company financials, or stock price.">>
NoResponseGenerated == <<"No response generated">>

\* ------------------------------------------------- capability responses

(* What agent.run(prompt) gives back: it raises, or returns a response.    *)
(* present: the response is not None and has a content attribute.          *)
(* ctype: content is None ("none"), a str ("str"), or the typed object of  *)
(* the agent's response_model ("obj"), whose one field read by the         *)
(* workflow (category / symbol / content / summary) is val.                *)
Raises == [raises |-> TRUE, present |-> FALSE, ctype |-> "none", val |-> << >>]
NoResponse == [raises |-> FALSE, present |-> FALSE, ctype |-> "none", val |-> << >>]
NoneContent == [raises |-> FALSE, present |-> TRUE, ctype |-> "none", val |-> << >>]
StrContent(s) == [raises |-> FALSE, present |-> TRUE, ctype |-> "str", val |-> s]
ObjContent(s) == [raises |-> FALSE, present |-> TRUE, ctype |-> "obj", val |-> s]
\* The capability was not invoked in this request.
NotCalled == [raises |-> FALSE, present |-> FALSE, ctype |-> "notcalled", val |-> << >>]

\* `resp and hasattr(resp, "content") and resp.content`
Truthy(resp) ==
    /\ resp.present
    /\ \/ resp.ctype = "obj"
       \/ resp.ctype = "str" /\ resp.val # << >>

RouterResponses ==
    {Raises, NoResponse, StrContent(<< >>)}
    \cup {ObjContent(c) : c \in Categories}
    \cup {StrContent(<<"C","H","A","T">>),
          StrContent(<<" ">> \o REPORT \o <<"\n">>),
          StrContent(<<" ">>),
          StrContent(<<"n","o","n","e">>)}

TICKER == <<"A","B">>
ResolverResponses ==
    {Raises, NoResponse, StrContent(<< >>),
     ObjContent(TICKER), ObjContent(UNKNOWN), ObjContent(Lower(TICKER)),
     ObjContent(<< >>),
     StrContent(<<" ">> \o TICKER), StrContent(UNKNOWN \o <<"\n">>)}

ChatText == <<"<chat reply>">>
ChatResponses ==
    {Raises, NoResponse, StrContent(<< >>),
     ObjContent(ChatText), StrContent(ChatText)}

SummaryText == <<"<summary>">>
SummarizerResponses ==
    {Raises, NoResponse, NoneContent, ObjContent(SummaryText), StrContent(SummaryText)}

\* One DataProvider operation: a record with success=True, a record with
\* success=False, or an exception out of the call.
FetchOutcomes == {"ok", "failed", "raises"}
DataOps == {"get_income_statement", "get_company_financials", "get_stock_price"}
FetchInputs == [DataOps -> FetchOutcomes]
\* No DataProvider operation was started in this request.
NoFetch == [op \in DataOps |-> "none"]

\* kwargs.get("message", ""): a missing and an empty message are both "".
UserText == <<"<user text>">>
MessageInputs == {<< >>, UserText}

\* ---------------------------------------------------------------- messages

\* ConversationMessage(...).model_dump(): role, content, agent_name.
\* (timestamp and structured_data are carried along and never read.)
ConversationMessage(role, content, agent_name) ==
    [role |-> role, content |-> content, agent_name |-> agent_name]

\* WorkflowSummary as held in session_state: the pydantic object the
\* workflow stores ("object"), or the dict a JSON store gives back ("dict").
WorkflowSummary(form, text) == [form |-> form, summary |-> text]

RECURSIVE Join(_)
\* ', '.join(companies)
Join(companies) ==
    IF companies = << >> THEN << >>
    ELSE IF Len(companies) = 1 THEN companies[1]
    ELSE companies[1] \o <<",", " ">> \o Join(Tail(companies))

\* ------------------------------------------------------- the DataProvider

(* FinancialModelingPrepTools (tools/financial_modeling_prep.py).  One     *)
(* HTTP GET of _make_request ends in a timeout, a non-2xx status, a body   *)
(* that is not JSON, or a JSON body: an empty list ("empty"), an object    *)
(* that is not a list ("object"), a list whose first item is not an        *)
(* object ("scalars"), or a list whose first item is an object ("rows").   *)
(* The object is a row: for every key the raw JSON value, as its type:     *)
(* "num" (a number), "str" (a text that is not a number), "null", or       *)
(* "absent" when the object has no such key.                               *)
Endpoints == {"income-statement", "key-metrics", "ratios", "profile", "quote"}

\* A number the provider reports, and the clock of `datetime.now()`.
UpstreamNumber == 7
Now == 1
\* None where a number is expected.
JsonNull == -1

\* The fields of the three records: the record's field, the sub-request and
\* the upstream key it is read from, and its type in models/schemas.py:
\* "float_v" / "int_v" have a before-validator that turns None into 0,
\* "float" / "int" / "str" have none.
Field(name, src, key, type) == [name |-> name, src |-> src, key |-> key, type |-> type]

IncomeStatementFields ==
    {Field("date", "income-statement", "date", "str"),
     Field("period", "income-statement", "period", "str"),
     Field("revenue", "income-statement", "revenue", "float_v"),
     Field("gross_profit", "income-statement", "grossProfit", "float_v"),
     Field("operating_income", "income-statement", "operatingIncome", "float_v"),
     Field("net_income", "income-statement", "netIncome", "float_v"),
     Field("eps", "income-statement", "eps", "float"),
     Field("gross_profit_ratio", "income-statement", "grossProfitRatio", "float"),
     Field("operating_income_ratio", "income-statement", "operatingIncomeRatio", "float"),
     Field("net_income_ratio", "income-statement", "netIncomeRatio", "float"),
     Field("research_and_development", "income-statement",
           "researchAndDevelopmentExpenses", "float"),
     Field("total_operating_expenses", "income-statement",
           "totalOperatingExpenses", "float")}

CompanyFinancialsFields ==
    {Field("company_name", "profile", "companyName", "str"),
     Field("market_cap", "profile", "mktCap", "float_v"),
     Field("beta", "profile", "beta", "float"),
     Field("pe_ratio", "key-metrics", "peRatio", "float"),
     Field("price_to_book", "ratios", "priceToBookRatio", "float"),
     Field("price_to_sales", "ratios", "priceToSalesRatio", "float"),
     Field("debt_to_equity", "ratios", "debtEquityRatio", "float"),
     Field("current_ratio", "ratios", "currentRatio", "float"),
     Field("quick_ratio", "ratios", "quickRatio", "float"),
     Field("roe", "ratios", "returnOnEquity", "float"),
     Field("roa", "ratios", "returnOnAssets", "float"),
     Field("revenue_growth", "key-metrics", "revenueGrowth", "float"),
     Field("gross_margin", "ratios", "grossProfitMargin", "float"),
     Field("operating_margin", "ratios", "operatingProfitMargin", "float"),
     Field("net_margin", "ratios", "netProfitMargin", "float"),
     Field("enterprise_value", "key-metrics", "enterpriseValue", "float_v"),
     Field("working_capital", "key-metrics", "workingCapital", "float_v"),
     Field("date", "key-metrics", "date", "str")}

StockPriceFields ==
    {Field("name", "quote", "name", "str"),
     Field("price", "quote", "price", "float_v"),
     Field("change", "quote", "change", "float_v"),
     Field("change_percent", "quote", "changesPercentage", "float"),
     Field("previous_close", "quote", "previousClose", "float_v"),
     Field("open", "quote", "open", "float_v"),
     Field("high", "quote", "dayHigh", "float_v"),
     Field("low", "quote", "dayLow", "float_v"),
     Field("volume", "quote", "volume", "int_v"),
     Field("avg_volume", "quote", "avgVolume", "int_v"),
     Field("market_cap", "quote", "marketCap", "float"),
     Field("pe_ratio", "quote", "pe", "float"),
     Field("eps", "quote", "eps", "float"),
     Field("fifty_two_week_high", "quote", "yearHigh", "float"),
     Field("fifty_two_week_low", "quote", "yearLow", "float"),
     Field("exchange", "quote", "exchange", "str"),
     Field("timestamp", "quote", "timestamp", "int")}

AllFields == IncomeStatementFields \cup CompanyFinancialsFields \cup StockPriceFields
Keys == {f.key : f \in AllFields}
TextKeys == {f.key : f \in {g \in AllFields : g.type = "str"}}
\* The numeric fields of a record.
Numeric(fields) == {f.name : f \in {g \in fields : g.type # "str"}}

\* A row of the object {} and the rows the provider sends.
EmptyRow == [k \in Keys |-> "absent"]
FullRow == [k \in Keys |-> IF k \in TextKeys THEN "str" ELSE "num"]
NullRow == [k \in Keys |-> "null"]
TextRow == [k \in Keys |-> "str"]

\* The keys an endpoint's row is read for, and those read as numbers.
KeysOf(endpoint) == {f.key : f \in {g \in AllFields : g.src = endpoint}}
NumericKeysOf(endpoint) ==
    {f.key : f \in {g \in AllFields : g.src = endpoint /\ g.type # "str"}}
\* A full row but for one numeric key, which is null or missing.
RowsWithOneGap(endpoint) ==
    {[FullRow EXCEPT ![k] = raw] : k \in NumericKeysOf(endpoint), raw \in {"null", "absent"}}

Upstream(kind, row) == [kind |-> kind, row |-> row]
TransportFailures == {"timeout", "http_error", "bad_json"}
UpstreamResponses ==
    {Upstream(kind, EmptyRow) : kind \in TransportFailures \cup {"empty", "object", "scalars"}}
    \cup {Upstream("rows", row) : row \in {FullRow, NullRow, EmptyRow, TextRow}}
\* The endpoint is not requested by the operation.
NotRequested == Upstream("unused", EmptyRow)

\* _make_request: the JSON body, or an Exception with a message.
MakeRequest(u) ==
    [raises |-> u.kind \in TransportFailures,
     message |-> IF u.kind = "http_error"
                 THEN <<"Financial Modeling Prep API request failed: ">>
                 ELSE IF u.kind = "bad_json"
                 THEN <<"Failed to parse API response: ">>
                 ELSE IF u.kind = "timeout"
                 THEN <<"Request timeout after ">>
                 ELSE << >>,
     kind |-> u.kind,
     row |-> u.row]

\* Whether pydantic accepts `row.get(key, default)` for the field.
FieldValid(f, row) ==
    LET raw == row[f.key]
    IN  \/ raw = "absent"
        \/ raw = "null" /\ f.type \in {"float_v", "int_v"}
        \/ raw = "num" /\ f.type # "str"
        \/ raw = "str" /\ f.type = "str"

\* A value read without the before-validators: None stays None.
FieldValueUnconverted(f, row) ==
    LET raw == row[f.key]
    IN  IF raw = "num" THEN UpstreamNumber
        ELSE IF raw = "null" THEN JsonNull
        ELSE IF raw = "absent" /\ f.name = "timestamp" THEN Now
        ELSE 0

\* The value a numeric field then takes.
FieldValue(f, row) ==
    LET raw == row[f.key]
    IN  IF raw = "num" THEN UpstreamNumber
        ELSE IF raw = "absent" /\ f.name = "timestamp" THEN Now
        ELSE 0

FieldNamed(fields, name) == CHOOSE f \in fields : f.name = name

\* A record flagged as a success all the same.
FailedRecordFlaggedOk(fields, sym, error) ==
    [raises |-> FALSE, symbol |-> sym, success |-> TRUE, error |-> << >>,
     num |-> [n \in Numeric(fields) |-> 0]]

\* The record the operations return for "no data" and from `except`.
FailedRecord(fields, sym, error) ==
    [raises |-> FALSE, symbol |-> sym, success |-> FALSE, error |-> error,
     num |-> [n \in Numeric(fields) |-> 0]]

(* The record built from the rows (one per sub-request): the constructor   *)
(* raises a ValidationError when a value is not accepted, which the        *)
(* operation's `except Exception` turns into the failed record.            *)
BuildRecord(fields, sym, rows, failure) ==
    IF \A f \in fields : FieldValid(f, rows[f.src])
    THEN [raises |-> FALSE, symbol |-> sym, success |-> TRUE, error |-> << >>,
          num |-> [n \in Numeric(fields) |->
                      LET f == FieldNamed(fields, n) IN FieldValue(f, rows[f.src])]]
    ELSE FailedRecord(fields, sym, failure \o <<"<validation error>">>)

\* get_income_statement / get_stock_price: one request.
GetSingle(fields, endpoint, what, nodata, symbol, up) ==
    LET sym == Upper(symbol)
        failure == <<"Failed to fetch ">> \o what \o <<" for ">> \o sym \o <<": ">>
        data == MakeRequest(up[endpoint])
    IN  IF data.raises THEN FailedRecord(fields, sym, failure \o data.message)
        ELSE IF data.kind \in {"empty", "object"}
        THEN FailedRecord(fields, sym, nodata \o sym)
        ELSE IF data.kind = "scalars"
        THEN FailedRecord(fields, sym, failure \o <<"<attribute error>">>)
        ELSE BuildRecord(fields, sym, [e \in Endpoints |-> data.row], failure)

GetIncomeStatement(symbol, up) ==
    GetSingle(IncomeStatementFields, "income-statement", <<"income statement">>,
              <<"No income statement data found for ">>, symbol, up)

GetStockPrice(symbol, up) ==
    GetSingle(StockPriceFields, "quote", <<"stock price">>,
              <<"No price data found for ">>, symbol, up)

SubRequests == {"key-metrics", "ratios", "profile"}

(* asyncio.gather(..., return_exceptions=True) of the three sub-requests,  *)
(* followed by lines 270-275: an exception is replaced by the empty list.  *)
Gather(up) ==
    LET rs == [e \in SubRequests |-> MakeRequest(up[e])]
    IN  [e \in SubRequests |->
            IF rs[e].raises THEN [kind |-> "empty", row |-> EmptyRow]
            ELSE [kind |-> rs[e].kind, row |-> rs[e].row]]

GetCompanyFinancials(symbol, up) ==
    LET sym == Upper(symbol)
        fields == CompanyFinancialsFields
        failure == <<"Failed to fetch company financials for ">> \o sym \o <<": ">>
        data == Gather(up)
        metrics_data == data["key-metrics"]
        \* `x_data[0] if isinstance(x_data, list) and x_data else {}`
        rows == [e \in Endpoints |->
                    IF e \in SubRequests /\ data[e].kind = "rows"
                    THEN data[e].row ELSE EmptyRow]
    IN  IF metrics_data.kind \in {"empty", "object"}
        THEN FailedRecord(fields, sym, <<"No financial data found for ">> \o sym)
        ELSE IF \E e \in SubRequests : data[e].kind = "scalars"
        THEN FailedRecord(fields, sym, failure \o <<"<attribute error>">>)
        ELSE BuildRecord(fields, sym, rows, failure)

\* ------------------------------------------------------------ search_symbol
(***************************************************************************)
(* search_symbol (tools/financial_modeling_prep.py, lines 100-159) and the *)
(* SymbolSearchResult it returns.  The first item of either answer is read *)
(* for these keys; a text the provider sends for "symbol" is ListedSymbol. *)
(***************************************************************************)
SearchKeys == {"symbol", "name", "companyName", "exchangeShortName"}
ListedSymbol == <<"C", "D">>

EmptySearchRow == [k \in SearchKeys |-> "absent"]
FullSearchRow == [k \in SearchKeys |-> "str"]
SearchRows ==
    {FullSearchRow, EmptySearchRow,
     [FullSearchRow EXCEPT !["symbol"] = "absent"],
     [FullSearchRow EXCEPT !["symbol"] = "null"],
     [FullSearchRow EXCEPT !["name"] = "null", !["companyName"] = "null"],
     [FullSearchRow EXCEPT !["name"] = "num", !["companyName"] = "num"]}

SearchResponses ==
    {Upstream(kind, EmptySearchRow) : kind \in TransportFailures \cup {"empty", "object", "scalars"}}
    \cup {Upstream("rows", row) : row \in SearchRows}
SearchNotRequested == Upstream("unused", EmptySearchRow)

\* str.isalpha()
IsAlpha(str) ==
    /\ Len(str) > 0
    /\ \A i \in 1..Len(str) :
          \E j \in 1..26 : UpperLetters[j] = str[i] \/ LowerLetters[j] = str[i]

\* The same test without the limit on the length.
DirectLookupAnyLength(query) == IsAlpha(query)

\* `len(query) <= 5 and query.isalpha()`
DirectLookup(query) == Len(query) <= 5 /\ IsAlpha(query)

\* One GET of the operation: the endpoint and what it is asked for.
Request(endpoint, arg) == [endpoint |-> endpoint, arg |-> arg]

\* SymbolSearchResult, with the requests the operation made.
SearchResult(sym, found, error, requested) ==
    [symbol |-> sym, found |-> found, error |-> error, requested |-> requested]

\* The result of `except Exception as e`.
SearchError(message, requested) == SearchResult(UNKNOWN, FALSE, Some(message), requested)

\* Whether pydantic accepts the Optional[str] read from `key`.
OptionalTextValid(row, key) == row[key] \in {"str", "null", "absent"}

\* The part from line 131 on: the search by company name.
SearchByName(query, search_up, requested) ==
    LET search_data == MakeRequest(search_up)
        made == requested \o <<Request("search", query)>>
        result == search_data.row
    IN  IF search_data.raises THEN SearchError(search_data.message, made)
        ELSE IF search_data.kind = "scalars" THEN SearchError(<<"<attribute error>">>, made)
        ELSE IF search_data.kind = "rows"
        THEN IF /\ result["symbol"] \in {"str", "absent"}
                /\ OptionalTextValid(result, "name")
                /\ OptionalTextValid(result, "exchangeShortName")
             THEN SearchResult(IF result["symbol"] = "str" THEN ListedSymbol ELSE UNKNOWN,
                               TRUE, None, made)
             ELSE SearchError(<<"<validation error>">>, made)
        ELSE SearchResult(UNKNOWN, FALSE,
                          Some(<<"No symbols found for query: ">> \o query), made)

\* search_symbol(query)
SearchSymbol(query, profile_up, search_up) ==
    LET sym == Upper(query)
        profile_data == MakeRequest(profile_up)
        made == <<Request("profile", sym)>>
        company == profile_data.row
    IN  IF ~DirectLookup(query) THEN SearchByName(query, search_up, << >>)
        ELSE IF profile_data.raises THEN SearchError(profile_data.message, made)
        ELSE IF profile_data.kind = "scalars"
        THEN SearchError(<<"<attribute error>">>, made)
        ELSE IF profile_data.kind = "rows"
        THEN IF /\ OptionalTextValid(company, "companyName")
                /\ OptionalTextValid(company, "exchangeShortName")
             THEN SearchResult(sym, TRUE, None, made)
             ELSE SearchError(<<"<validation error>">>, made)
        ELSE SearchByName(query, search_up, made)

\* ------------------------------------------------------------ the composition
(***************************************************************************)
(* _compose_financial_report and the functions it calls read these fields  *)
(* of the three records.  A record is the function from the field's name   *)
(* to its number.  A ratio (net_income_ratio, roe, debt_to_equity,         *)
(* revenue_growth) is kept in hundredths, so that 0.15 is 15; a market_cap *)
(* is kept in thousands of millions of dollars, so that 200_000_000_000 is *)
(* 200; every other field is kept as it is.                                *)
(***************************************************************************)
IncomeValues ==
    [revenue |-> {0, 7}, net_income |-> {0, 7, -7}, eps |-> {0, 7},
     net_income_ratio |-> {0, 3, 20, -5}]

FinancialsValues ==
    [pe_ratio |-> {0, 15, 31}, market_cap |-> {0, 5, 10, 11, 200, 201, -1},
     roe |-> {0, 3, 20}, debt_to_equity |-> {0, 20, 150},
     revenue_growth |-> {0, 20}]

PriceValues ==
    [price |-> {0, 7}, change |-> {0, 7, -7}, volume |-> {0, 7},
     pe_ratio |-> {0, 15}, change_percent |-> {0, 2, -2},
     market_cap |-> {0, 5, 200, 201}]

\* The record of a failed fetch: every number is the default 0.
ZeroRecord(values) == [f \in DOMAIN values |-> 0]

TypicalIncome ==
    [revenue |-> 7, net_income |-> 7, eps |-> 7, net_income_ratio |-> 20]

TypicalFinancials ==
    [pe_ratio |-> 15, market_cap |-> 11, roe |-> 20, debt_to_equity |-> 20,
     revenue_growth |-> 20]

TypicalPrice ==
    [price |-> 7, change |-> 7, volume |-> 7, pe_ratio |-> 15,
     change_percent |-> 2, market_cap |-> 5]

\* The records that differ from a base in at most one field.
OneOff(values, base) ==
    {base} \cup UNION {{[base EXCEPT ![f] = v] : v \in values[f]} : f \in DOMAIN values}

IncomeRecords == OneOff(IncomeValues, ZeroRecord(IncomeValues)) \cup OneOff(IncomeValues, TypicalIncome)

FinancialsRecords ==
    OneOff(FinancialsValues, ZeroRecord(FinancialsValues)) \cup OneOff(FinancialsValues, TypicalFinancials)

PriceRecords == OneOff(PriceValues, ZeroRecord(PriceValues)) \cup OneOff(PriceValues, TypicalPrice)

\* Python's `a or b` on two numbers.
Or(a, b) == IF a # 0 THEN a ELSE b

\* The thresholds of the composition, in the units above.
LargeCapAbove == 200
MidCapAbove == 10
StrongMargin == 15
StrongRoe == 15
ConservativeDebt == 30
StrongGrowth == 10
LowMargin == 5
HighDebt == 100
LowRoe == 5
HighPe == 30

Placeholder(list, text) == IF list = << >> THEN <<text>> ELSE list

When(cond, text) == IF cond THEN <<text>> ELSE << >>

\* The bucket of a market cap that is > 0.
MarketCapBucketInclusive(market_cap) ==
    IF market_cap >= LargeCapAbove THEN "Large-cap company (>$200B)"
    ELSE IF market_cap >= MidCapAbove THEN "Mid-cap company ($10B-$200B)"
    ELSE "Small-cap company (<$10B)"

MarketCapBucket(market_cap) ==
    IF market_cap > LargeCapAbove THEN "Large-cap company (>$200B)"
    ELSE IF market_cap > MidCapAbove THEN "Mid-cap company ($10B-$200B)"
    ELSE "Small-cap company (<$10B)"

\* _generate_key_insights; an insight is its text without the number.
GenerateKeyInsights(income_data, financials_data, price_data) ==
    LET pe_ratio == Or(financials_data.pe_ratio, price_data.pe_ratio)
        market_cap == Or(financials_data.market_cap, price_data.market_cap)
    IN  Placeholder(
            When(income_data.revenue > 0, "Revenue")
         \o When(income_data.net_income_ratio > 0, "Net margin")
         \o When(pe_ratio # 0 /\ pe_ratio > 0, "P/E ratio")
         \o When(price_data.change_percent # 0,
                 IF price_data.change_percent > 0 THEN "Stock up" ELSE "Stock down")
         \o When(market_cap > 0, MarketCapBucket(market_cap)),
            "Financial data analysis in progress")

\* _identify_strengths
IdentifyStrengths(income_data, financials_data, price_data) ==
    Placeholder(
        When(income_data.net_income_ratio > StrongMargin, "Strong profitability")
     \o When(financials_data.roe > StrongRoe, "Excellent return on equity")
     \o When(0 < financials_data.debt_to_equity
                /\ financials_data.debt_to_equity < ConservativeDebt,
             "Conservative debt levels")
     \o When(financials_data.revenue_growth > StrongGrowth, "Strong revenue growth"),
        "Detailed analysis requires additional data")

\* _identify_concerns
IdentifyConcerns(income_data, financials_data, price_data) ==
    LET net_margin == income_data.net_income_ratio
        pe_ratio == Or(financials_data.pe_ratio, price_data.pe_ratio)
    IN  Placeholder(
            (IF net_margin < 0 THEN <<"Company is currently unprofitable">>
             ELSE IF net_margin < LowMargin THEN <<"Low profit margins">>
             ELSE << >>)
         \o When(financials_data.debt_to_equity > HighDebt,
                 "High debt levels relative to equity")
         \o When(0 < financials_data.roe /\ financials_data.roe < LowRoe,
                 "Low return on equity")
         \o When(pe_ratio # 0 /\ pe_ratio > HighPe, "High P/E ratio"),
            "No significant concerns identified")

\* The fields of a record, among `fields`, that are not 0.
Filled(data, fields) == {f \in fields : data[f] # 0}

\* A score: the quotient numerator / denominator, kept as the two numbers.
Score(numerator, denominator) ==
    IF denominator > 0 THEN [numerator |-> numerator, denominator |-> denominator]
    ELSE [numerator |-> 0, denominator |-> 1]

\* The checklist of _calculate_data_quality.
QualityIncomeFields == {"revenue", "net_income", "eps", "net_income_ratio"}
QualityFinancialsFields == {"pe_ratio", "market_cap", "roe", "debt_to_equity"}
QualityPriceFields == {"price", "change", "volume"}

\* A count that takes a field not on the checklist for a filled one.
FilledFieldsOfAll(income_data, financials_data, price_data) ==
    Cardinality(Filled(income_data, QualityIncomeFields))
  + Cardinality(Filled(financials_data, DOMAIN financials_data))
  + Cardinality(Filled(price_data, QualityPriceFields))

FilledFields(income_data, financials_data, price_data) ==
    Cardinality(Filled(income_data, QualityIncomeFields))
  + Cardinality(Filled(financials_data, QualityFinancialsFields))
  + Cardinality(Filled(price_data, QualityPriceFields))

\* _calculate_data_quality
CalculateDataQuality(income_data, financials_data, price_data) ==
    Score(FilledFields(income_data, financials_data, price_data),
          Cardinality(QualityIncomeFields) + Cardinality(QualityFinancialsFields)
            + Cardinality(QualityPriceFields))

\* One section of _calculate_completeness: any(...) of its key fields.
SectionAvailable(data, key_fields) == IF Filled(data, key_fields) # {} THEN 1 ELSE 0

\* _calculate_completeness
CalculateCompleteness(income_data, financials_data, price_data) ==
    Score(SectionAvailable(income_data, {"revenue", "net_income"})
            + SectionAvailable(financials_data, {"pe_ratio", "market_cap"})
            + SectionAvailable(price_data, {"price", "change"}),
          3)

\* _compose_financial_report: what the report says of the three records.
ComposeReport(income_data, financials_data, price_data) ==
    [key_insights |-> GenerateKeyInsights(income_data, financials_data, price_data),
     data_quality_score |-> CalculateDataQuality(income_data, financials_data, price_data),
     completeness_score |-> CalculateCompleteness(income_data, financials_data, price_data),
     strengths |-> IdentifyStrengths(income_data, financials_data, price_data),
     concerns |-> IdentifyConcerns(income_data, financials_data, price_data)]

\* ------------------------------------------------------------------- state

VARIABLES
    messages,                    \* session_state["messages"]
    conversation_summary,        \* session_state["conversation_summary"]: None or Some(WorkflowSummary)
    last_summary_message_count,  \* session_state["last_summary_message_count"]
    companies_discussed,         \* session_state["companies_discussed"]
    category,                    \* session_state["category"]: None or Some(str)
    symbol,                      \* session_state["symbol"]
    last_symbol,                 \* session_state["last_symbol"]
    workflow_path,               \* session_state["workflow_path"]
    data_category,               \* session_state["data_category"]
    requests,                    \* run() calls the session has handled
    obs,                         \* what the last run() call did, as its caller and its collaborators saw it
    provider,                    \* the last DataProvider operation: its arguments, what the provider sent, its result
    search,                      \* the last search_symbol call: its query, what the provider sent, its result
    composer                     \* the last composition: the three records and what the report says

vars == <<messages, conversation_summary, last_summary_message_count,
          companies_discussed, category, symbol, last_symbol, workflow_path,
          data_category, requests, obs, provider, search, composer>>

\* The session-state part of the state, as one value.
SessionState ==
    [messages |-> messages,
     conversation_summary |-> conversation_summary,
     last_summary_message_count |-> last_summary_message_count,
     companies_discussed |-> companies_discussed,
     category |-> category,
     symbol |-> symbol,
     last_symbol |-> last_symbol,
     workflow_path |-> workflow_path,
     data_category |-> data_category]

\* Nothing has run yet.
NoObs ==
    [op |-> "init",
     message |-> << >>,
     calls |-> << >>,
     responses |-> << >>,
     raised |-> "none",
     path |-> "none",
     update_ran |-> FALSE,
     update_count |-> 0,
     update_last |-> 0,
     update_return |-> None,
     summarizer_in |-> NotCalled,
     summarizer |-> NotCalled,
     router |-> NotCalled,
     resolver |-> NotCalled,
     chat |-> NotCalled,
     used_symbol |-> None,
     fetch |-> NoFetch,
     context |-> << >>]

\* One invocation of a collaborator: its name and the text (or symbol) given.
Call(name, arg) == [name |-> name, arg |-> arg]

CallNames(o) == {o.calls[i].name : i \in 1..Len(o.calls)}

\* ------------------------------------------------------ conversation memory

\* _get_conversation_context
GetConversationContext(s) ==
    LET summary == s.conversation_summary
        companies == s.companies_discussed
    IN  IF summary # None
        THEN LET summary_text ==
                     IF summary[1].form = "object"
                     THEN summary[1].summary
                     ELSE <<"{'summary': '">> \o summary[1].summary \o <<"'}">>
                 companies_text ==
                     IF companies # << >>
                     THEN <<"\nCompanies discussed: ">> \o Join(companies)
                     ELSE << >>
             IN  <<"Previous conversation: ">> \o summary_text \o companies_text
        ELSE IF companies # << >>
             THEN <<"Companies discussed: ">> \o Join(companies)
             ELSE << >>

\* A call that also forgets the companies it has listed.
GetConversationContextOnce(s) ==
    [s |-> [s EXCEPT !.companies_discussed = << >>], text |-> GetConversationContext(s)]

\* One call of _get_conversation_context: the session state it leaves and
\* the string it returns (it reads session_state with .get and assigns
\* nothing).
GetConversationContextCall(s) == [s |-> s, text |-> GetConversationContext(s)]

\* A guard that waits for five new messages instead.
SummaryUpdateDueAtThreshold(message_count, last_count) ==
    message_count - last_count >= 5

\* The guard of _update_conversation_summary.
SummaryUpdateDue(message_count, last_count) ==
    message_count > last_count /\ last_count > 0

\* What a summarizer response that did not raise stores: the summary, or
\* nothing when the response has no content attribute.
SummaryFromResponse(resp) ==
    IF resp.present /\ resp.ctype = "obj"
    THEN Some(WorkflowSummary("object", resp.val))
    ELSE IF resp.present
    THEN Some(WorkflowSummary("object",
              IF resp.ctype = "none" THEN <<"N","o","n","e">> ELSE resp.val))
    ELSE None

\* An except branch that forgets the summary it could not refresh.
SummaryOnExceptionForgets(s, o) ==
    [s |-> [s EXCEPT !.conversation_summary = None,
                     !.last_summary_message_count = 0],
     o |-> [o EXCEPT !.update_return = None]]

\* The except branch of _update_conversation_summary: the state is left
\* as it is and None is returned.
SummaryOnException(s, o) ==
    [s |-> s, o |-> [o EXCEPT !.update_return = None]]

\* An update that records a count ahead of the log.
UpdateConversationSummaryCountingAhead(s, o, resp) ==
    [s |-> [s EXCEPT !.last_summary_message_count = Len(s.messages) + 5],
     o |-> [o EXCEPT !.update_ran = TRUE, !.update_return = s.conversation_summary]]

\* _update_conversation_summary, with `resp` what summary_agent.run gives.
\* s: session state, o: the observations of this request.
UpdateConversationSummary(s, o, resp) ==
    LET message_count == Len(s.messages)
        last_count == s.last_summary_message_count
        o1 == [o EXCEPT !.update_ran = TRUE,
                        !.update_count = message_count,
                        !.update_last = last_count]
    IN  IF SummaryUpdateDue(message_count, last_count)
        THEN LET o2 == [o1 EXCEPT !.calls = Append(@, Call("summarizer", << >>)),
                                  !.summarizer = resp]
             IN  IF resp.raises
                 THEN SummaryOnException(s, o2)
                 ELSE LET updated == SummaryFromResponse(resp)
                      IN  IF updated # None
                          THEN [s |-> [s EXCEPT !.conversation_summary = updated,
                                                !.last_summary_message_count = message_count],
                                o |-> [o2 EXCEPT !.update_return = updated]]
                          ELSE [s |-> s, o |-> [o2 EXCEPT !.update_return = None]]
        ELSE [s |-> s, o |-> [o1 EXCEPT !.update_return = s.conversation_summary]]

\* ------------------------------------------------------------ the flows

Say(so, content) == [so EXCEPT !.o.responses = Append(@, content)]
\* A log that keeps only the newest message.
ReplaceMessages(so, m) == [so EXCEPT !.s.messages = <<m>>]
AppendMessage(so, m) == [so EXCEPT !.s.messages = Append(@, m)]
Invoke(so, name, arg) == [so EXCEPT !.o.calls = Append(@, Call(name, arg))]

\* A test against the lowercase word.
IsUnknownLowercase(sym) == sym = Lower(UNKNOWN)

\* `if symbol == "UNKNOWN"`
IsUnknown(sym) == sym = UNKNOWN

\* The symbol both data flows take from the extraction agent's response.
ExtractSymbol(resp) ==
    IF Truthy(resp)
    THEN IF resp.ctype = "obj" THEN resp.val ELSE Strip(resp.val)
    ELSE UNKNOWN

\* The two data flows' common head: the extraction agent is run, its
\* message is recorded and, on UNKNOWN, the fixed error text is the reply.
\* done: the flow has returned (or the agent raised).
ResolveSymbol(so, message, resp) ==
    LET prompt == <<"Extract symbol from: ">> \o message \o <<"\n">>
                      \o GetConversationContext(so.s)
        so1 == [Invoke(so, "resolver", prompt) EXCEPT !.o.resolver = resp]
    IN  IF resp.raises
        THEN [so |-> [so1 EXCEPT !.o.raised = "resolver"], done |-> TRUE, symbol |-> None]
        ELSE LET sym == ExtractSymbol(resp)
                 so2 == AppendMessage(
                            [so1 EXCEPT !.o.used_symbol = Some(sym)],
                            ConversationMessage("agent",
                                <<"Extracted symbol: ">> \o sym,
                                Some("Symbol Extraction Agent")))
             IN  IF IsUnknown(sym)
                 THEN [so |-> Say(AppendMessage(so2,
                                     ConversationMessage("agent", SymbolErrorMessage,
                                                         Some("Workflow System"))),
                                  SymbolErrorMessage),
                       done |-> TRUE, symbol |-> Some(sym)]
                 ELSE [so |-> [so2 EXCEPT !.s.symbol = Some(sym)],
                       done |-> FALSE, symbol |-> Some(sym)]

ExceptionText == <<"<exception text>">>
\* The values a record's template shows: those fetched, or the zero defaults.
Values(outcome) == IF outcome = "ok" THEN <<"<values>">> ELSE <<"<zeros>">>

\* _format_financial_data on a record (a record is never falsy).
FormatFinancialData(outcome, data_type, sym) ==
    IF data_type = INCOME_STATEMENT
    THEN <<"# Income Statement - ">> \o sym \o Values(outcome)
    ELSE IF data_type = COMPANY_FINANCIALS
    THEN <<"# Company Financials - ">> \o sym \o Values(outcome)
    ELSE IF data_type = STOCK_PRICE
    THEN <<"# Stock Price - ">> \o sym \o Values(outcome)
    ELSE <<"Unknown data type: ">> \o data_type

\* A dispatch that takes every data category for a price request.
OpOfAlwaysPrice(cat) == "get_stock_price"

\* The DataProvider operation the alone flow calls for a category.
OpOf(cat) ==
    IF cat = INCOME_STATEMENT THEN "get_income_statement"
    ELSE IF cat = COMPANY_FINANCIALS THEN "get_company_financials"
    ELSE "get_stock_price"

\* _run_alone_flow
RunAloneFlow(so, message, cat, resolver_resp, fetch) ==
    LET r == ResolveSymbol([so EXCEPT !.o.path = "alone"], message, resolver_resp)
    IN  IF r.done THEN r.so
        ELSE LET sym == r.symbol[1]
             IN  IF cat \notin {INCOME_STATEMENT, COMPANY_FINANCIALS, STOCK_PRICE}
                 THEN Say(r.so, InvalidCategoryMessage)
                 ELSE LET outcome == fetch[OpOf(cat)]
                          so1 == [Invoke(r.so, OpOf(cat), sym)
                                     EXCEPT !.o.fetch[OpOf(cat)] = outcome]
                      IN  IF outcome = "raises"
                          THEN Say(so1, <<"Error retrieving ">> \o ReplaceUnderscore(cat)
                                            \o <<" data for ">> \o sym \o <<": ">>
                                            \o ExceptionText)
                          ELSE LET formatted_content == FormatFinancialData(outcome, cat, sym)
                                   so2 == AppendMessage(so1,
                                              ConversationMessage("agent", formatted_content,
                                                                  Some("Financial Data Agent")))
                               IN  Say([so2 EXCEPT !.s.last_symbol = Some(sym),
                                                   !.s.workflow_path = Some("alone"),
                                                   !.s.data_category = Some(cat)],
                                       formatted_content)

\* _compose_financial_report, as the title and the three sections' values.
ComposeFinancialReport(sym, fetch) ==
    <<"# Financial Report - ">> \o sym
        \o <<"### Income Statement">> \o Values(fetch["get_income_statement"])
        \o <<"### Company Financials & Ratios">> \o Values(fetch["get_company_financials"])
        \o <<"### Stock Price & Market Data">> \o Values(fetch["get_stock_price"])

(* _fetch_parallel_financial_data: the three operations are started as the  *)
(* tasks of one asyncio.TaskGroup.  The group returns the three records     *)
(* when every task has returned; a task that raises makes the group cancel  *)
(* the tasks still running and raise, whatever the others did.              *)
FetchParallelFinancialData(fetch) ==
    [raised |-> \E op \in DataOps : fetch[op] = "raises", data |-> fetch]

\* The except branch of _run_report_flow's fetch step, with the generic text.
ReportFetchErrorGeneric(sym) == SymbolErrorMessage

\* The except branch of _run_report_flow's fetch step: the reply it yields.
ReportFetchError(sym) ==
    <<"Error retrieving financial data for ">> \o sym \o <<": ">>
        \o <<"Error retrieving financial data: ">> \o ExceptionText

\* _run_report_flow
RunReportFlow(so, message, resolver_resp, fetch) ==
    LET r == ResolveSymbol([so EXCEPT !.o.path = "report"], message, resolver_resp)
    IN  IF r.done THEN r.so
        ELSE LET sym == r.symbol[1]
                 so1 == [Invoke(Invoke(Invoke(r.so, "get_income_statement", sym),
                                       "get_company_financials", sym),
                                "get_stock_price", sym)
                            EXCEPT !.o.fetch = fetch]
                 fetched == FetchParallelFinancialData(fetch)
             IN  IF fetched.raised
                 THEN Say(so1, ReportFetchError(sym))
                 ELSE LET comprehensive_report == ComposeFinancialReport(sym, fetched.data)
                          so2 == AppendMessage(Invoke(so1, "compose_financial_report", sym),
                                     ConversationMessage("agent", comprehensive_report,
                                                         Some("Financial Report Composer")))
                      IN  Say([so2 EXCEPT !.s.last_symbol = Some(sym),
                                          !.s.workflow_path = Some("report")],
                              comprehensive_report)

\* The reply the chat flow takes from the chat agent's response.
ChatContent(resp) ==
    IF Truthy(resp) THEN resp.val ELSE NoResponseGenerated

\* _run_chat_flow
RunChatFlow(so, message, chat_resp) ==
    LET so0 == [so EXCEPT !.o.path = "chat", !.s.workflow_path = Some("chat")]
        prompt == message \o <<"\n\nContext:\n">> \o GetConversationContext(so0.s)
        so1 == [Invoke(so0, "chat", prompt) EXCEPT !.o.chat = chat_resp]
    IN  IF chat_resp.raises
        THEN [so1 EXCEPT !.o.raised = "chat"]
        ELSE LET final_content == ChatContent(chat_resp)
             IN  Say(AppendMessage(so1,
                         ConversationMessage("agent", final_content, Some("Chat Agent"))),
                     final_content)

\* A test of the response only, not of its content being empty.
ExtractCategoryUnchecked(resp) ==
    IF resp.present /\ resp.ctype # "none"
    THEN IF resp.ctype = "obj" THEN resp.val ELSE Lower(Strip(resp.val))
    ELSE <<"c","h","a","t">>

\* The category run() takes from the router agent's response, before the
\* final strip().lower().
ExtractCategory(resp) ==
    IF Truthy(resp)
    THEN IF resp.ctype = "obj" THEN resp.val ELSE Lower(Strip(resp.val))
    ELSE CHAT

\* The content of the Router Agent message.
RouterContent(resp) ==
    IF Truthy(resp) THEN resp.val ELSE CHAT

\* run(), from the user message to the branch: the message is appended,
\* the summary updated, the router run and its message recorded.
\* done: the router raised.
RouteRequest(s, message, summarizer_resp, router_resp) ==
    LET o0 == [NoObs EXCEPT !.op = "run", !.message = message,
                            !.summarizer_in = summarizer_resp]
        s1 == [s EXCEPT !.messages = Append(@, ConversationMessage("user", message, None))]
        u == UpdateConversationSummary(s1, o0, summarizer_resp)
        prompt == <<"User request: ">> \o message \o <<"\n">> \o GetConversationContext(u.s)
        so1 == [Invoke(u, "router", prompt) EXCEPT !.o.router = router_resp]
    IN  IF router_resp.raises
        THEN [so |-> [so1 EXCEPT !.o.raised = "router"], done |-> TRUE, category |-> None]
        ELSE LET cat == Lower(Strip(ExtractCategory(router_resp)))
                 so2 == AppendMessage(so1,
                            ConversationMessage("agent", RouterContent(router_resp),
                                                Some("Router Agent")))
             IN  [so |-> [so2 EXCEPT !.s.category = Some(cat)],
                  done |-> FALSE, category |-> Some(cat)]

\* The state after an operation, and what it did.
Commit(so) ==
    /\ messages' = so.s.messages
    /\ conversation_summary' = so.s.conversation_summary
    /\ last_summary_message_count' = so.s.last_summary_message_count
    /\ companies_discussed' = so.s.companies_discussed
    /\ category' = so.s.category
    /\ symbol' = so.s.symbol
    /\ last_symbol' = so.s.last_symbol
    /\ workflow_path' = so.s.workflow_path
    /\ data_category' = so.s.data_category
    /\ obs' = so.o
    /\ UNCHANGED <<provider, search, composer>>

\* One DataProvider outcome for every operation.
AllFetch(outcome) == [op \in DataOps |-> outcome]

(* The inputs of one run() call.  A collaborator that the call does not    *)
(* reach is given one representative behaviour (a summarizer that returns  *)
(* a summary, fetches that succeed): what it would have done changes       *)
(* nothing.                                                                *)
SummarizerInputs(s) ==
    IF SummaryUpdateDue(Len(s.messages) + 1, s.last_summary_message_count)
    THEN SummarizerResponses
    ELSE {ObjContent(SummaryText)}

ReportFetchInputs(resolver_resp) ==
    IF ~resolver_resp.raises /\ ExtractSymbol(resolver_resp) # UNKNOWN
    THEN FetchInputs
    ELSE {AllFetch("ok")}

AloneFetchInputs(cat, resolver_resp) ==
    IF /\ ~resolver_resp.raises
       /\ ExtractSymbol(resolver_resp) # UNKNOWN
       /\ cat \in {INCOME_STATEMENT, COMPANY_FINANCIALS, STOCK_PRICE}
    THEN {AllFetch(outcome) : outcome \in FetchOutcomes}
    ELSE {AllFetch("ok")}

\* run(), lines 732-751: no message, or an empty one.
RejectEmptyMessageLogged(s) ==
    [s |-> [s EXCEPT !.messages = Append(@, ConversationMessage("user", << >>, None))],
     o |-> [NoObs EXCEPT !.op = "run", !.responses = <<NoMessageProvided>>]]

RejectEmptyMessage(s) ==
    [s |-> s, o |-> [NoObs EXCEPT !.op = "run", !.responses = <<NoMessageProvided>>]]

\* run(message=...), iterated to its end by the caller.
Run ==
    /\ requests < MaxRequests
    /\ requests' = requests + 1
    /\ \E message \in MessageInputs :
         IF message = << >>
         THEN Commit(RejectEmptyMessage(SessionState))
         ELSE \E summarizer_resp \in SummarizerInputs(SessionState),
                 router_resp \in RouterResponses :
                LET r == RouteRequest(SessionState, message, summarizer_resp, router_resp)
                IN  IF r.done THEN Commit(r.so)
                    ELSE IF r.category[1] = REPORT
                    THEN \E resolver_resp \in ResolverResponses :
                           \E fetch \in ReportFetchInputs(resolver_resp) :
                             Commit(RunReportFlow(r.so, message, resolver_resp, fetch))
                    ELSE IF r.category[1] = CHAT
                    THEN \E chat_resp \in ChatResponses :
                             Commit(RunChatFlow(r.so, message, chat_resp))
                    ELSE \E resolver_resp \in ResolverResponses :
                           \E fetch \in AloneFetchInputs(r.category[1], resolver_resp) :
                             Commit(RunAloneFlow(r.so, message, r.category[1],
                                                 resolver_resp, fetch))

\* What _clean_session_state_for_storage keeps of a session_state value:
\* a str, None, list or dict passes json.dumps; a pydantic object does not
\* and its key is dropped.
CleanedSummary(summary) ==
    IF summary # None /\ summary[1].form = "object" THEN None ELSE summary

\* _clean_session_state_for_storage
CleanSessionStateForStorage ==
    /\ conversation_summary' = CleanedSummary(conversation_summary)
    /\ obs' = [NoObs EXCEPT !.op = "clean"]
    /\ UNCHANGED <<messages, last_summary_message_count, companies_discussed,
                   category, symbol, last_symbol, workflow_path, data_category,
                   requests, provider, search, composer>>

\* _get_conversation_context, called on its own (as the tests do).
CallGetConversationContext ==
    /\ LET c == GetConversationContextCall(SessionState)
       IN  Commit([s |-> c.s, o |-> [NoObs EXCEPT !.op = "context", !.context = c.text]])
    /\ UNCHANGED requests

\* No DataProvider operation has been called.
NoProviderCall ==
    [op |-> "none", symbol |-> << >>,
     upstream |-> [e \in Endpoints |-> NotRequested],
     result |-> [raises |-> FALSE, symbol |-> << >>, success |-> FALSE,
                 error |-> << >>, num |-> << >>]]

\* search_symbol has not been called.
NoSearch ==
    [op |-> "none", query |-> << >>, profile |-> SearchNotRequested,
     results |-> SearchNotRequested,
     result |-> SearchResult(<< >>, FALSE, None, << >>)]

\* No report has been composed.
NoComposition ==
    [op |-> "none",
     income_data |-> ZeroRecord(IncomeValues),
     financials_data |-> ZeroRecord(FinancialsValues),
     price_data |-> ZeroRecord(PriceValues),
     report |-> [key_insights |-> << >>,
                 data_quality_score |-> Score(0, 1),
                 completeness_score |-> Score(0, 1),
                 strengths |-> << >>,
                 concerns |-> << >>]]

\* __init__, lines 63-76: the session state of a new workflow.
Init ==
    /\ messages = << >>
    /\ conversation_summary = None
    /\ last_summary_message_count = 0
    /\ companies_discussed = << >>
    /\ category = None
    /\ symbol = None
    /\ last_symbol = None
    /\ workflow_path = None
    /\ data_category = None
    /\ requests = 0
    /\ obs = NoObs
    /\ provider = NoProviderCall
    /\ search = NoSearch
    /\ composer = NoComposition

Next == Run \/ CleanSessionStateForStorage \/ CallGetConversationContext

Spec == Init /\ [][Next]_vars

(* A workflow whose session_state was there before __init__ ran (line 63   *)
(* keeps it): a session the framework restored from its store, or a state  *)
(* set by the caller, as src/tests/test_workflow.py does (lines 62, 73,    *)
(* 86).  The log holds the messages of earlier chat requests, the summary  *)
(* is absent or the dict a JSON store gives back, the count is within the  *)
(* log, and companies may be listed.                                       *)
PriorExchange ==
    <<ConversationMessage("user", UserText, None),
      ConversationMessage("agent", CHAT, Some("Router Agent")),
      ConversationMessage("agent", ChatText, Some("Chat Agent"))>>

RECURSIVE PriorLog(_)
PriorLog(k) == IF k = 0 THEN << >> ELSE PriorLog(k - 1) \o PriorExchange

InitLoaded ==
    /\ requests \in 1..MaxLoaded
    /\ messages = PriorLog(requests)
    /\ conversation_summary \in {None, Some(WorkflowSummary("dict", SummaryText))}
    /\ last_summary_message_count \in 0..Len(messages)
    /\ companies_discussed \in {<< >>, <<TICKER>>, <<TICKER, <<"C","D">>>>}
    /\ category = Some(CHAT)
    /\ symbol = None
    /\ last_symbol = None
    /\ workflow_path = Some("chat")
    /\ data_category = None
    /\ obs = NoObs
    /\ provider = NoProviderCall
    /\ search = NoSearch
    /\ composer = NoComposition

SpecLoaded == InitLoaded /\ [][Next]_vars

(* The DataProvider operations on their own: each is called with a symbol  *)
(* as the workflow passes it, against every answer of the provider.  The   *)
(* client keeps nothing between calls, so a behaviour is one call.         *)
ProviderSymbols == {TICKER, Lower(TICKER)}

ProviderCall(op, sym, up, result) ==
    /\ provider = NoProviderCall
    /\ search.op = "none"
    /\ provider' = [op |-> op, symbol |-> sym, upstream |-> up, result |-> result]
    /\ UNCHANGED <<messages, conversation_summary, last_summary_message_count,
                   companies_discussed, category, symbol, last_symbol,
                   workflow_path, data_category, requests, obs, search, composer>>

\* What the provider may answer to a request of an endpoint.
ResponsesOf(endpoint) ==
    UpstreamResponses \cup {Upstream("rows", row) : row \in RowsWithOneGap(endpoint)}

\* The answers to the requests of `used`, the other endpoints not requested.
UpstreamInputs(used) ==
    {[e \in Endpoints |-> IF e \in used THEN answers[e] ELSE NotRequested] :
        answers \in {a \in [used -> UNION {ResponsesOf(e) : e \in used}] :
                        \A e \in used : a[e] \in ResponsesOf(e)}}

CallGetIncomeStatement ==
    \E sym \in ProviderSymbols, up \in UpstreamInputs({"income-statement"}) :
        ProviderCall("get_income_statement", sym, up, GetIncomeStatement(sym, up))

CallGetCompanyFinancials ==
    \E sym \in ProviderSymbols, up \in UpstreamInputs(SubRequests) :
        ProviderCall("get_company_financials", sym, up, GetCompanyFinancials(sym, up))

CallGetStockPrice ==
    \E sym \in ProviderSymbols, up \in UpstreamInputs({"quote"}) :
        ProviderCall("get_stock_price", sym, up, GetStockPrice(sym, up))

\* The queries search_symbol is called with.
SearchQueries ==
    {<<"a", "b">>, <<"A", "B">>, <<"a", "b", "c", "d", "e">>,
     <<"a", "b", "c", "d", "e", "f">>, <<"a", "1">>, <<"A", " ", "b">>, << >>}

CallSearchSymbol ==
    /\ provider = NoProviderCall
    /\ search.op = "none"
    /\ \E query \in SearchQueries, results \in SearchResponses :
         \E profile \in IF DirectLookup(query) THEN SearchResponses
                                                ELSE {SearchNotRequested} :
            search' = [op |-> "search_symbol", query |-> query, profile |-> profile,
                       results |-> results,
                       result |-> SearchSymbol(query, profile, results)]
    /\ UNCHANGED <<messages, conversation_summary, last_summary_message_count,
                   companies_discussed, category, symbol, last_symbol,
                   workflow_path, data_category, requests, obs, provider, composer>>

NextProvider ==
    \/ CallGetIncomeStatement
    \/ CallGetCompanyFinancials
    \/ CallGetStockPrice
    \/ CallSearchSymbol

SpecProvider == Init /\ [][NextProvider]_vars

(* The composition on its own: _compose_financial_report is given three    *)
(* records, those of failed fetches among them.  It keeps nothing between  *)
(* calls, so a behaviour is one call.                                      *)
ComposeFinancialReportCall ==
    /\ composer.op = "none"
    /\ \E income_data \in IncomeRecords, financials_data \in FinancialsRecords,
          price_data \in PriceRecords :
         composer' = [op |-> "compose",
                      income_data |-> income_data,
                      financials_data |-> financials_data,
                      price_data |-> price_data,
                      report |-> ComposeReport(income_data, financials_data, price_data)]
    /\ UNCHANGED <<messages, conversation_summary, last_summary_message_count,
                   companies_discussed, category, symbol, last_symbol,
                   workflow_path, data_category, requests, obs, provider, search>>

NextComposer == ComposeFinancialReportCall

SpecComposer == Init /\ [][NextComposer]_vars

\* ================================================================== claims

Called(name) == name \in CallNames(obs)
Fetched == CallNames(obs) \cap DataOps # {}
\* The summarizer of this request is one that returns a summary.
SummarizerWorks == obs.summarizer_in \in {ObjContent(SummaryText), StrContent(SummaryText)}
\* The difference _update_conversation_summary saw when it ran.
UpdateDifference == obs.update_count - obs.update_last

C2_BootstrapPastThreshold ==
    (obs.update_ran /\ obs.update_last = 0 /\ obs.update_count >= 5 /\ SummarizerWorks)
        => conversation_summary # None

(* C3: when the log holds messages past last_summary_message_count (a      *)
(* count of 0 included) and the summarizer returns a summary, the update   *)
(* returns a summary and sets the count to the number of messages.         *)
C3_UpdateReturnsSummary ==
    (obs.update_ran /\ obs.update_count > obs.update_last /\ SummarizerWorks)
        => /\ obs.update_return # None
           /\ last_summary_message_count = obs.update_count

C5_FailedRegenerationSkipped ==
    [][(obs'.op = "run" /\ obs'.summarizer = Raises)
          => /\ conversation_summary' = conversation_summary
             /\ last_summary_message_count' = last_summary_message_count
             /\ obs'.update_return = None
             /\ obs'.raised # "summarizer"
             /\ "router" \in CallNames(obs')]_vars

\* The summarizer raised, the earlier summary and count are in place and
\* the router was run.
C5_Witness ==
    /\ obs.summarizer = Raises
    /\ conversation_summary = Some(WorkflowSummary("dict", SummaryText))
    /\ last_summary_message_count > 0
    /\ Called("router")

\* The router was run and returned.
RouterReturned == Called("router") /\ ~obs.router.raises
\* What the router returned is, after strip().lower(), none of the labels.
NotALabel(resp) == ~Truthy(resp) \/ Lower(Strip(resp.val)) \notin Categories

(* C6, as stated: whenever what the router returns is missing, empty or    *)
(* not a category label, the request is handled by the chat flow and no    *)
(* data flow is entered.                                                   *)
C6_ChatOnAnyUnparseableResult ==
    (RouterReturned /\ NotALabel(obs.router))
        => (obs.path = "chat" /\ ~Called("resolver") /\ ~Fetched)

(* C6, amended: a router result that is missing or empty (no response, no  *)
(* content, empty content) is handled by the chat flow and no data flow is *)
(* entered; non-empty text that is not a label enters the alone flow,      *)
(* where the resolver is run and no DataProvider operation is called.      *)
C6_ChatOnMissingResult ==
    /\ (RouterReturned /\ ~Truthy(obs.router))
           => /\ obs.path = "chat"
              /\ category = Some(CHAT)
              /\ Called("chat")
              /\ ~Called("resolver")
              /\ ~Fetched
    /\ (RouterReturned /\ Truthy(obs.router) /\ NotALabel(obs.router))
           => /\ obs.path = "alone"
              /\ Called("resolver")
              /\ ~Fetched

\* The router returned empty content and the chat flow replied.
C6_Witness ==
    /\ obs.router = StrContent(<< >>)
    /\ obs.path = "chat"
    /\ Len(obs.responses) = 1

(* C7: whichever of the router, the resolver and the chat capability       *)
(* raises, no exception leaves run() and the response is built from the    *)
(* default: router -> the chat flow, resolver -> UNKNOWN (the fixed error  *)
(* text), chat -> 'No response generated'.                                 *)
C7_NoCapabilityFailureEscapes ==
    /\ obs.raised = "none"
    /\ obs.router.raises => (obs.path = "chat" /\ Len(obs.responses) = 1)
    /\ obs.resolver.raises => obs.responses = <<SymbolErrorMessage>>
    /\ obs.chat.raises => obs.responses = <<NoResponseGenerated>>

(* C8: in the alone flow and in the report flow, a resolution that yields  *)
(* UNKNOWN is answered with exactly the fixed error text and no            *)
(* DataProvider operation is called in that request.                       *)
C8_UnknownGivesGuidanceNoFetch ==
    obs.used_symbol = Some(UNKNOWN)
        => /\ obs.path \in {"alone", "report"}
           /\ obs.responses = <<SymbolErrorMessage>>
           /\ ~Fetched

\* The report flow resolved UNKNOWN and answered with the fixed text.
C8_Witness ==
    /\ obs.used_symbol = Some(UNKNOWN)
    /\ obs.path = "report"
    /\ obs.responses = <<SymbolErrorMessage>>

\* A non-empty string of uppercase letters (UNKNOWN is one).
IsUpperAlpha(s) ==
    s # << >> /\ \A i \in 1..Len(s) : \E k \in 1..26 : UpperLetters[k] = s[i]

(* C9: the symbol a data flow works with is a non-empty string of          *)
(* uppercase letters or UNKNOWN, whatever the extraction agent returned.   *)
C9_SymbolUppercaseOrUnknown ==
    obs.used_symbol # None => IsUpperAlpha(obs.used_symbol[1])

(* C10: in a request classified as chat the resolver is not run, no        *)
(* DataProvider operation is called, and a reply is returned.              *)
C10_ChatNoResolutionReplyReturned ==
    obs.path = "chat"
        => /\ ~Called("resolver")
           /\ ~Fetched
           /\ obs.raised = "none"
           /\ Len(obs.responses) = 1

\* The DataProvider operations the last request started, in call order.
DataCalls ==
    LET data == SelectSeq(obs.calls, LAMBDA c : c.name \in DataOps)
    IN  [i \in 1..Len(data) |-> data[i].name]
\* The last request resolved a symbol other than UNKNOWN.
SymbolResolved == obs.used_symbol # None /\ obs.used_symbol # Some(UNKNOWN)

(* C11: a request classified income_statement, company_financials or       *)
(* stock_price, for which a symbol other than UNKNOWN is resolved, invokes  *)
(* exactly one DataProvider operation, the one of its category, and does    *)
(* not invoke the report composition.                                       *)
C11_OneMatchingOperation ==
    (obs.path = "alone" /\ SymbolResolved)
        => /\ category = Some(INCOME_STATEMENT) => DataCalls = <<"get_income_statement">>
           /\ category = Some(COMPANY_FINANCIALS) => DataCalls = <<"get_company_financials">>
           /\ category = Some(STOCK_PRICE) => DataCalls = <<"get_stock_price">>
           /\ ~Called("compose_financial_report")

\* C11: a company_financials request for a resolved symbol has fetched.
C11_Witness ==
    /\ obs.path = "alone"
    /\ SymbolResolved
    /\ category = Some(COMPANY_FINANCIALS)
    /\ DataCalls = <<"get_company_financials">>
    /\ obs.fetch["get_company_financials"] = "ok"
    /\ Len(obs.responses) = 1

\* The last request reached the fetch step of the report path.
ReportFetched == obs.path = "report" /\ SymbolResolved /\ obs.fetch # NoFetch

SubRequestFailed(e) == provider.upstream[e].kind \in TransportFailures
\* The sub-request succeeded with a full row of values.
SubRequestSucceeded(e) == provider.upstream[e] = Upstream("rows", FullRow)
\* The numeric fields of the company financials fed by a sub-request.
FedBy(e) == {f.name : f \in {g \in CompanyFinancialsFields : g.src = e /\ g.type # "str"}}

(* C13: get_company_financials issues its three sub-requests, and when one *)
(* of them fails while the other two succeed, the fields fed by the failed *)
(* one are 0 and the fields fed by the other two carry the upstream        *)
(* values.                                                                  *)
C13_SubRequestFailureIsolated ==
    provider.op = "get_company_financials"
        => \A e \in SubRequests :
              (/\ SubRequestFailed(e)
               /\ \A other \in SubRequests \ {e} : SubRequestSucceeded(other))
                  => /\ ~provider.result.raises
                     /\ \A n \in FedBy(e) : provider.result.num[n] = 0
                     /\ \A other \in SubRequests \ {e} :
                           \A n \in FedBy(other) : provider.result.num[n] = UpstreamNumber

\* The messages a step appended to the log.
Appended == SubSeq(messages', Len(messages) + 1, Len(messages'))
\* The step is a request that ended with a reply to the caller.
Replied == obs'.op = "run" /\ obs'.message # << >> /\ obs'.responses # << >>

(* C14: a request that ends with a reply appends, in this order, the user  *)
(* message, a Router Agent message, on the alone and report paths a Symbol *)
(* Extraction Agent message, and the message of the stage that produced    *)
(* the reply, whose content is the reply; every agent message has an       *)
(* agent_name.                                                              *)
C14_StagesRecordedInOrder ==
    [][Replied =>
        LET new == Appended
            n == Len(new)
        IN  /\ n = IF obs'.path = "chat" THEN 3 ELSE 4
            /\ new[1].role = "user" /\ new[1].content = obs'.message
            /\ new[2].agent_name = Some("Router Agent")
            /\ obs'.path \in {"alone", "report"}
                  => new[3].agent_name = Some("Symbol Extraction Agent")
            /\ \A i \in 2..n : new[i].role = "agent" /\ new[i].agent_name # None
            /\ new[n].content = obs'.responses[1]]_vars

\* s is a prefix of t.
IsPrefix(s, t) == Len(s) <= Len(t) /\ SubSeq(t, 1, Len(s)) = s

(* C15: the message log is append-only: in every step (a request, a        *)
(* storage cleaning) the messages already in the log keep their position   *)
(* and their content, new messages are added at the end only, and the      *)
(* log never gets shorter.                                                  *)
C15_LogAppendOnly == [][IsPrefix(messages, messages')]_vars

\* C15: a second request has appended its messages behind those of the first.
C15_Witness ==
    /\ requests = 2
    /\ obs.op = "run"
    /\ Len(messages) >= 7
    /\ messages[1].role = "user"
    /\ messages[Len(messages)].agent_name = Some("Chat Agent")

\* The elements of a list.
Elements(list) == {list[i] : i \in 1..Len(list)}

(* C16: after a request in which a symbol other than UNKNOWN is resolved,  *)
(* that symbol is in companies_discussed, and so in the context string     *)
(* the Router and the Resolver are given afterwards.                       *)
C16_ResolvedSymbolRemembered ==
    (obs.path \in {"alone", "report"} /\ SymbolResolved)
        => /\ obs.used_symbol[1] \in Elements(companies_discussed)
           /\ GetConversationContext(SessionState) # << >>

(* C17: in every reachable session state, whatever requests were handled   *)
(* and whether the summary regenerations succeeded or failed,              *)
(* last_summary_message_count <= len(messages).                            *)
C17_CountWithinLog == last_summary_message_count <= Len(messages)

\* C17: a regeneration has recorded its count and the request went on
\* appending messages.
C17_Witness ==
    /\ Called("summarizer")
    /\ obs.update_return # None
    /\ last_summary_message_count = obs.update_count
    /\ last_summary_message_count > 0
    /\ last_summary_message_count < Len(messages)

\* How many times the last request invoked a collaborator.
TimesCalled(name) == Len(SelectSeq(obs.calls, LAMBDA c : c.name = name))

(* C18: every request with a message is routed once, handled by exactly    *)
(* one of the alone, report and chat branches, and answered with exactly   *)
(* one response; nothing is retried (no collaborator is invoked twice).    *)
C18_OneRouteOneBranchOneResponse ==
    (obs.op = "run" /\ obs.message # << >>)
        => /\ TimesCalled("router") = 1
           /\ obs.path \in {"alone", "report", "chat"}
           /\ Len(obs.responses) = 1
           /\ \A name \in CallNames(obs) : TimesCalled(name) = 1

\* The fetch step of the report path raised in the last request.
ReportFetchRaised == ReportFetched /\ \E op \in DataOps : obs.fetch[op] = "raises"
\* The text every symbol-scoped fetch error of the report path starts with.
ErrorNaming(sym) == <<"Error retrieving financial data for ">> \o sym

(* C19: when the fetch step of the report path raises, the one response    *)
(* is an error message that names the symbol, not the generic guidance     *)
(* text; the report is not composed and no report message is recorded.     *)
C19_FetchErrorNamesSymbol ==
    ReportFetchRaised
        => LET sym == obs.used_symbol[1]
               prefix == ErrorNaming(sym)
           IN  /\ Len(obs.responses) = 1
               /\ Len(obs.responses[1]) > Len(prefix)
               /\ SubSeq(obs.responses[1], 1, Len(prefix)) = prefix
               /\ obs.responses[1] # SymbolErrorMessage
               /\ ~Called("compose_financial_report")
               /\ messages[Len(messages)].agent_name = Some("Symbol Extraction Agent")
               /\ obs.raised = "none"

\* C19: one of the three fetches raised while the other two succeeded.
C19_Witness ==
    /\ ReportFetchRaised
    /\ obs.fetch["get_company_financials"] = "raises"
    /\ obs.fetch["get_income_statement"] = "ok"
    /\ obs.fetch["get_stock_price"] = "ok"
    /\ obs.used_symbol = Some(TICKER)
    /\ Len(obs.responses) = 1

\* The result of the last operation is the failed record: nothing raised,
\* success is false, the error is not empty and every numeric field is 0.
FailedZeroRecord ==
    /\ ~provider.result.raises
    /\ ~provider.result.success
    /\ provider.result.error # << >>
    /\ \A n \in DOMAIN provider.result.num : provider.result.num[n] = 0
\* A timeout, HTTP error or malformed body met one of the operation's requests.
SomeRequestFailed == \E e \in Endpoints : SubRequestFailed(e)

(* C20, as stated: a timeout, an HTTP error or a malformed response inside *)
(* get_income_statement, get_company_financials or get_stock_price makes   *)
(* the operation return, without raising, a record with success = false,   *)
(* a non-empty error and every numeric field 0.                            *)
C20_AnyFailureGivesFailedRecord ==
    (provider.op # "none" /\ SomeRequestFailed) => FailedZeroRecord

(* C20, amended: no operation raises.  get_income_statement and            *)
(* get_stock_price return the failed record on a timeout, HTTP error or    *)
(* malformed response; get_company_financials does so when its key-metrics *)
(* sub-request fails, while a failure of the ratios or of the profile      *)
(* sub-request alone leaves a successful record (no error) in which only   *)
(* the fields of the failed sub-request are 0.                             *)
C20_FailureGivesFailedRecordPerOperation ==
    provider.op # "none"
        => /\ ~provider.result.raises
           /\ (provider.op \in {"get_income_statement", "get_stock_price"}
                    /\ SomeRequestFailed) => FailedZeroRecord
           /\ (provider.op = "get_company_financials"
                    /\ SubRequestFailed("key-metrics")) => FailedZeroRecord
           /\ (/\ provider.op = "get_company_financials"
               /\ SubRequestSucceeded("key-metrics")
               /\ \A e \in {"ratios", "profile"} :
                     SubRequestFailed(e) \/ SubRequestSucceeded(e))
                  => /\ provider.result.success
                     /\ provider.result.error = << >>
                     /\ \A e \in {"ratios", "profile"} :
                           SubRequestFailed(e)
                               => \A n \in FedBy(e) : provider.result.num[n] = 0
                     /\ \A n \in FedBy("key-metrics") :
                           provider.result.num[n] = UpstreamNumber

\* C20: the ratios sub-request timed out and the record is a success.
C20_Witness ==
    /\ provider.op = "get_company_financials"
    /\ provider.upstream["ratios"].kind = "timeout"
    /\ SubRequestSucceeded("key-metrics")
    /\ SubRequestSucceeded("profile")
    /\ provider.result.success
    /\ provider.result.num["roe"] = 0
    /\ provider.result.num["market_cap"] = UpstreamNumber

\* The declared fields of the record the last operation returns.
FieldsOf(op) ==
    IF op = "get_income_statement" THEN IncomeStatementFields
    ELSE IF op = "get_company_financials" THEN CompanyFinancialsFields
    ELSE StockPriceFields

(* C21: every record a DataProvider operation returns has each of its      *)
(* declared numeric fields, and none of them is null, whatever the shape   *)
(* of the upstream payload (missing keys, null values, empty list, ...).   *)
C21_NumericFieldsPresentNonNull ==
    provider.op # "none"
        => /\ ~provider.result.raises
           /\ DOMAIN provider.result.num = Numeric(FieldsOf(provider.op))
           /\ \A n \in DOMAIN provider.result.num : provider.result.num[n] \in Nat

\* C21: the upstream row had null for revenue and the record is returned
\* with revenue 0.
C21_Witness ==
    /\ provider.op = "get_income_statement"
    /\ provider.upstream["income-statement"].kind = "rows"
    /\ provider.upstream["income-statement"].row["revenue"] = "null"
    /\ provider.upstream["income-statement"].row["netIncome"] = "num"
    /\ provider.result.success
    /\ provider.result.num["revenue"] = 0

\* A report has been composed from the records of `composer`.
Composed == composer.op = "compose"

AllZero(data) == \A f \in DOMAIN data : data[f] = 0

ThreeZeroRecords ==
    /\ AllZero(composer.income_data)
    /\ AllZero(composer.financials_data)
    /\ AllZero(composer.price_data)

\* The fields of the 11-field checklist that are not 0 in the three records.
ChecklistNonZero ==
    {<<"income", f>> : f \in {g \in {"revenue", "net_income", "eps", "net_income_ratio"} :
                                composer.income_data[g] # 0}}
    \cup {<<"financials", f>> : f \in {g \in {"pe_ratio", "market_cap", "roe", "debt_to_equity"} :
                                        composer.financials_data[g] # 0}}
    \cup {<<"price", f>> : f \in {g \in {"price", "change", "volume"} :
                                   composer.price_data[g] # 0}}

\* The records with a key field that is not 0.
RecordsWithKeyField ==
    {r \in {"income", "financials", "price"} :
        \/ r = "income"
             /\ (composer.income_data.revenue # 0 \/ composer.income_data.net_income # 0)
        \/ r = "financials"
             /\ (composer.financials_data.pe_ratio # 0 \/ composer.financials_data.market_cap # 0)
        \/ r = "price"
             /\ (composer.price_data.price # 0 \/ composer.price_data.change # 0)}

(* C22: the data-quality score and the completeness score are within      *)
(* [0,1] for all records; the quality score is the number of non-zero      *)
(* fields of the 11-field checklist divided by 11, the completeness score  *)
(* the number of records with a non-zero key field divided by 3; three     *)
(* all-zero records give quality 0 and completeness 0.                     *)
C22_ScoresAreCountsWithinUnit ==
    Composed =>
        LET quality == composer.report.data_quality_score
            completeness == composer.report.completeness_score
        IN  /\ quality.denominator = 11
            /\ quality.numerator = Cardinality(ChecklistNonZero)
            /\ 0 <= quality.numerator /\ quality.numerator <= quality.denominator
            /\ completeness.denominator = 3
            /\ completeness.numerator = Cardinality(RecordsWithKeyField)
            /\ 0 <= completeness.numerator
            /\ completeness.numerator <= completeness.denominator
            /\ ThreeZeroRecords => quality.numerator = 0 /\ completeness.numerator = 0

\* C22: a failed income statement next to two full records: 7 of the 11
\* fields and 2 of the 3 records count, revenue_growth not being on the list.
C22_Witness ==
    /\ Composed
    /\ AllZero(composer.income_data)
    /\ composer.financials_data = TypicalFinancials
    /\ composer.price_data = TypicalPrice
    /\ composer.report.data_quality_score = [numerator |-> 7, denominator |-> 11]
    /\ composer.report.completeness_score = [numerator |-> 2, denominator |-> 3]

\* The bucket insights of the report.
BucketInsights ==
    {composer.report.key_insights[i] : i \in 1..Len(composer.report.key_insights)}
        \cap {"Large-cap company (>$200B)", "Mid-cap company ($10B-$200B)",
              "Small-cap company (<$10B)"}

(* C23: the market cap that is bucketed is financials.market_cap when it   *)
(* is non-zero and price.market_cap otherwise; a bucket is emitted only    *)
(* when that value is > 0; above 200,000,000,000 it is Large-cap, above    *)
(* 10,000,000,000 Mid-cap, otherwise Small-cap, so that exactly            *)
(* 200,000,000,000 is Mid-cap.  (Market caps are in thousands of millions.) *)
C23_MarketCapBucketStrict ==
    Composed =>
        LET cap == IF composer.financials_data.market_cap # 0
                   THEN composer.financials_data.market_cap
                   ELSE composer.price_data.market_cap
        IN  /\ cap <= 0 => BucketInsights = {}
            /\ cap > 200 => BucketInsights = {"Large-cap company (>$200B)"}
            /\ cap > 10 /\ cap <= 200 => BucketInsights = {"Mid-cap company ($10B-$200B)"}
            /\ cap > 0 /\ cap <= 10 => BucketInsights = {"Small-cap company (<$10B)"}
            /\ cap = 200 => BucketInsights = {"Mid-cap company ($10B-$200B)"}

\* C23: financials.market_cap is 0, price.market_cap is exactly
\* 200,000,000,000, and the report says Mid-cap.
C23_Witness ==
    /\ Composed
    /\ composer.financials_data.market_cap = 0
    /\ composer.price_data.market_cap = 200
    /\ BucketInsights = {"Mid-cap company ($10B-$200B)"}

(* C24: the composition of three records whose numeric fields are all 0    *)
(* completes, and the insights, the strengths and the concerns each        *)
(* consist of their single placeholder entry.                              *)
C24_AllZeroGivesPlaceholders ==
    Composed /\ ThreeZeroRecords =>
        /\ composer.report.key_insights = <<"Financial data analysis in progress">>
        /\ composer.report.strengths = <<"Detailed analysis requires additional data">>
        /\ composer.report.concerns = <<"No significant concerns identified">>

(* C25: _get_conversation_context is side-effect free: a call leaves       *)
(* messages, the summary, last_summary_message_count, companies_discussed  *)
(* and every other session-state field unchanged, and with no summary and  *)
(* no companies it returns the empty string.                               *)
C25_ContextSideEffectFree ==
    [][obs'.op = "context"
          => /\ UNCHANGED <<messages, conversation_summary, last_summary_message_count,
                            companies_discussed, category, symbol, last_symbol,
                            workflow_path, data_category>>
             /\ (conversation_summary = None /\ companies_discussed = << >>)
                   => obs'.context = << >>]_vars

\* C25: the context of a session with a log, no summary and no companies
\* was asked for and is the empty string.
C25_Witness ==
    /\ obs.op = "context"
    /\ messages # << >>
    /\ conversation_summary = None
    /\ companies_discussed = << >>
    /\ obs.context = << >>

(* C29: a request with an empty or missing message yields the single       *)
(* response 'No message provided' and changes nothing: no message is       *)
(* appended to the log, no capability and no DataProvider operation is     *)
(* invoked, and every session-state field is unchanged.                    *)
C29_EmptyMessageChangesNothing ==
    [][(obs'.op = "run" /\ obs'.message = << >>)
          => /\ obs'.responses = <<NoMessageProvided>>
             /\ obs'.calls = << >>
             /\ ~obs'.update_ran
             /\ UNCHANGED <<messages, conversation_summary, last_summary_message_count,
                            companies_discussed, category, symbol, last_symbol,
                            workflow_path, data_category>>]_vars

\* C29: a session that has handled a request was then sent an empty
\* message and answered 'No message provided'.
C29_Witness ==
    /\ requests = 2
    /\ obs.op = "run"
    /\ obs.message = << >>
    /\ obs.responses = <<NoMessageProvided>>
    /\ Len(messages) >= 3

(* C30: after any request that yields a response, workflow_path names the  *)
(* branch (alone, report or chat) that handled it, also when the request   *)
(* ended in the UNKNOWN-symbol error or in a fetch error; it never keeps    *)
(* the value an earlier request left.                                      *)
C30_WorkflowPathNamesBranch ==
    (obs.op = "run" /\ obs.path \in {"alone", "report", "chat"} /\ obs.responses # << >>)
        => workflow_path = Some(obs.path)

\* The endpoints the last operation requested.
EndpointsOf(op) ==
    IF op = "get_income_statement" THEN {"income-statement"}
    ELSE IF op = "get_company_financials" THEN SubRequests
    ELSE {"quote"}

\* The payload was complete but for the numeric key k of endpoint e, which
\* was `raw`.
SingleGap(e, k, raw) ==
    /\ provider.op # "none"
    /\ e \in EndpointsOf(provider.op)
    /\ k \in {f.key : f \in {g \in FieldsOf(provider.op) : g.src = e /\ g.type # "str"}}
    /\ provider.upstream[e] = Upstream("rows", [FullRow EXCEPT ![k] = raw])
    /\ \A other \in EndpointsOf(provider.op) \ {e} :
          provider.upstream[other] = Upstream("rows", FullRow)

\* The record is a successful one with 0 in the field read from key k of
\* endpoint e and the upstream number in every other numeric field.
CoercedAt(e, k) ==
    /\ provider.result.success
    /\ \A f \in {g \in FieldsOf(provider.op) : g.type # "str"} :
          provider.result.num[f.name] =
              IF f.src = e /\ f.key = k THEN 0 ELSE UpstreamNumber

(* C26: when the upstream payload carries null or no value for any single  *)
(* numeric field, the returned record has 0 for that field and is still a  *)
(* successful record whose other fields carry their upstream values.       *)
C26_SingleGapCoercedToZero ==
    \A e \in Endpoints, k \in Keys, raw \in {"null", "absent"} :
        SingleGap(e, k, raw) => CoercedAt(e, k)

\* search_symbol has been called.
Searched == search.op = "search_symbol"

\* The requests search_symbol made of an endpoint, in order.
RequestsOf(endpoint) ==
    SelectSeq(search.result.requested, LAMBDA r : r.endpoint = endpoint)

\* The query is at most 5 characters, all of them letters.
ShortAlphabetic(query) == Len(query) > 0 /\ Len(query) <= 5 /\ IsAlpha(query)

(* C27: the direct profile lookup of the uppercased query is tried, and    *)
(* tried first, exactly when the query is at most 5 characters and purely  *)
(* alphabetic; a lookup that finds a company is the result and no search   *)
(* follows; otherwise, or when the direct lookup finds nothing, one search *)
(* by name is issued with the query and its first result is accepted; an   *)
(* empty search result gives symbol UNKNOWN with found = false and an      *)
(* error.                                                                  *)
C27_DirectLookupThenOneSearch ==
    Searched =>
        LET query == search.query
            made == search.result.requested
            direct == RequestsOf("profile")
            fuzzy == RequestsOf("search")
            nothing_found == search.profile.kind \in {"empty", "object"}
        IN  /\ direct # << >> <=> ShortAlphabetic(query)
            /\ direct # << >> =>
                  /\ direct = <<Request("profile", Upper(query))>>
                  /\ made[1] = direct[1]
            /\ (direct # << >> /\ search.profile = Upstream("rows", FullSearchRow)) =>
                  /\ fuzzy = << >>
                  /\ search.result.found
                  /\ search.result.symbol = Upper(query)
            /\ (direct = << >> \/ nothing_found) =>
                  /\ fuzzy = <<Request("search", query)>>
                  /\ search.results = Upstream("rows", FullSearchRow) =>
                        /\ search.result.found
                        /\ search.result.symbol = ListedSymbol
                        /\ search.result.error = None
                  /\ search.results.kind = "empty" =>
                        /\ search.result.symbol = UNKNOWN
                        /\ ~search.result.found
                        /\ search.result.error # None

\* C27: the direct lookup of "ab" as AB found nothing, the search for "ab"
\* followed, and its first result was accepted.
C27_Witness ==
    /\ Searched
    /\ search.query = <<"a", "b">>
    /\ search.profile.kind = "empty"
    /\ search.result.requested
          = <<Request("profile", <<"A", "B">>), Request("search", <<"a", "b">>)>>
    /\ search.results = Upstream("rows", FullSearchRow)
    /\ search.result.found
    /\ search.result.symbol = ListedSymbol

(* C28: for every result of search_symbol, found is true if and only if    *)
(* symbol is not the sentinel UNKNOWN, and error is null exactly when      *)
(* found is true, whatever the provider returns.                           *)
C28_FoundIffSymbolKnown ==
    Searched =>
        /\ search.result.found <=> search.result.symbol # UNKNOWN
        /\ search.result.error = None <=> search.result.found

====
